---- MODULE Spec2Model ----
(***************************************************************************)
(* A model of the startup-phase message codec (src/messages/startup.rs)    *)
(* and of the portal built from a Bind (src/api/portal.rs) of pgwire.      *)
(*                                                                         *)
(* A byte is a number in 0..255, a buffer (BytesMut) is a sequence of      *)
(* bytes whose head is the read cursor, a Rust String is a sequence of     *)
(* code points, an Option is a sequence of length 0 (None) or 1 (Some).    *)
(***************************************************************************)
EXTENDS Integers, Sequences, FiniteSets, TLC

\* ------------------------------------------------------------------ bounds
MaxStrLen == 1
MaxParams == 2
MaxRest == 1
MaxWire == 7
MaxShortWire == 4

\* code points the strings of the messages are made of: 'a' and U+00E9,
\* whose UTF-8 encoding is two bytes long
Chars == {97, 233}
\* the bytes of the bodies that arrive from the wire: NUL, 'a', 'b'
WireBytes == {0, 97, 98}
\* the bytes that follow a body in the buffer (the next frame)
RestBytes == {0, 97}

SeqsUpTo(S, n) == UNION {[1..k -> S] : k \in 0..n}

None == <<>>
Some(x) == <<x>>

\* -------------------------------------------------- bytes::Buf / BufMut
Drop(buf, n) == SubSeq(buf, n + 1, Len(buf))

put_u16(buf, n) == buf \o <<n \div 256, n % 256>>

\* big-endian two's complement; a negative n is the complement of -(n+1)
put_i32(buf, n) ==
  LET x == IF n < 0 THEN -(n + 1) ELSE n
      b == <<x \div 16777216, (x \div 65536) % 256, (x \div 256) % 256, x % 256>>
  IN  buf \o (IF n < 0 THEN [i \in 1..4 |-> 255 - b[i]] ELSE b)

put_slice(buf, bytes) == buf \o bytes

\* Buf::get_u16 panics when fewer than 2 bytes remain
get_u16(buf) ==
  IF Len(buf) < 2
  THEN [st |-> "panic", val |-> 0, rest |-> buf]
  ELSE [st |-> "ok", val |-> buf[1] * 256 + buf[2], rest |-> Drop(buf, 2)]

\* Buf::get_i32 panics when fewer than 4 bytes remain
get_i32(buf) ==
  IF Len(buf) < 4
  THEN [st |-> "panic", val |-> 0, rest |-> buf]
  ELSE LET neg == buf[1] >= 128
           b == [i \in 1..4 |-> IF neg THEN 255 - buf[i] ELSE buf[i]]
           x == b[1] * 16777216 + b[2] * 65536 + b[3] * 256 + b[4]
       IN  [st |-> "ok", val |-> IF neg THEN -x - 1 ELSE x, rest |-> Drop(buf, 4)]

\* BytesMut::split_to(n) panics when n is past the end
split_to(buf, n) ==
  IF Len(buf) < n
  THEN [st |-> "panic", val |-> <<>>, rest |-> buf]
  ELSE [st |-> "ok", val |-> SubSeq(buf, 1, n), rest |-> Drop(buf, n)]

\* ------------------------------------------------------ str and String
\* UTF-8 of one code point below U+0800
Utf8(c) == IF c < 128 THEN <<c>> ELSE <<192 + (c \div 64), 128 + (c % 64)>>

RECURSIVE as_bytes(_)
as_bytes(s) == IF s = <<>> THEN <<>> ELSE Utf8(Head(s)) \o as_bytes(Tail(s))

\* String::from_utf8_lossy: a malformed byte becomes U+FFFD
RECURSIVE from_utf8_lossy(_)
from_utf8_lossy(b) ==
  IF b = <<>> THEN <<>>
  ELSE IF b[1] < 128 THEN <<b[1]>> \o from_utf8_lossy(Drop(b, 1))
  ELSE IF b[1] >= 194 /\ b[1] <= 223 /\ Len(b) >= 2 /\ b[2] >= 128 /\ b[2] <= 191
       THEN <<(b[1] - 192) * 64 + (b[2] - 128)>> \o from_utf8_lossy(Drop(b, 2))
  ELSE <<65533>> \o from_utf8_lossy(Drop(b, 1))

\* Ord for byte strings: lexicographic, a proper prefix is smaller
RECURSIVE BytesLess(_, _)
BytesLess(a, b) ==
  IF b = <<>> THEN FALSE
  ELSE IF a = <<>> THEN TRUE
  ELSE IF a[1] # b[1] THEN a[1] < b[1]
  ELSE BytesLess(Tail(a), Tail(b))

\* Ord for String compares the UTF-8 bytes
StrLess(a, b) == BytesLess(as_bytes(a), as_bytes(b))

\* ------------------------------------------------------- messages::codec
put_cstring(buf, s) == buf \o as_bytes(s) \o <<0>>

\* the index of the first NUL of buf, 0 when there is none
NulIndex(buf) ==
  IF \E i \in 1..Len(buf) : buf[i] = 0
  THEN CHOOSE i \in 1..Len(buf) : buf[i] = 0 /\ \A j \in 1..(i - 1) : buf[j] # 0
  ELSE 0

\* reads up to and including the terminating NUL; None for the empty string
get_cstring(buf) ==
  LET i == NulIndex(buf)
  IN  IF i = 0
      THEN [st |-> "underflow", val |-> None, rest |-> buf]
      ELSE [st |-> "ok",
            val |-> IF i = 1 THEN None ELSE Some(from_utf8_lossy(SubSeq(buf, 1, i - 1))),
            rest |-> Drop(buf, i)]

unwrap_or_empty(opt) == IF opt = None THEN <<>> ELSE opt[1]

\* ------------------------------------------------------------ BTreeMap
EmptyMap == [k \in {} |-> <<>>]

insert(map, key, value) ==
  [k \in (DOMAIN map) \cup {key} |-> IF k = key THEN value ELSE map[k]]

\* mutant: the map is walked from its greatest key down
FirstKey_descending(keys) == CHOOSE k \in keys : \A o \in keys \ {k} : StrLess(o, k)

\* the first key of a non-empty key set in the map's iteration order
FirstKey(keys) == CHOOSE k \in keys : \A o \in keys \ {k} : StrLess(k, o)

\* --------------------------------------------------------------- Startup
NewStartup == [protocol_number_major |-> 3, protocol_number_minor |-> 0,
               parameters |-> EmptyMap]

RECURSIVE SumParamLength(_, _)
SumParamLength(params, keys) ==
  IF keys = {} THEN 0
  ELSE LET k == FirstKey(keys)
       IN  Len(as_bytes(k)) + Len(as_bytes(params[k])) + 2
           + SumParamLength(params, keys \ {k})

\* mutant: the NUL that ends the parameter list is not counted
Startup_message_length_no_terminator(m) ==
  8 + SumParamLength(m.parameters, DOMAIN m.parameters)

Startup_message_length(m) ==
  9 + SumParamLength(m.parameters, DOMAIN m.parameters)

RECURSIVE PutParameters(_, _, _)
PutParameters(buf, params, keys) ==
  IF keys = {} THEN buf
  ELSE LET k == FirstKey(keys)
       IN  PutParameters(put_cstring(put_cstring(buf, k), params[k]), params, keys \ {k})

Startup_encode_body(m, buf) ==
  LET b1 == put_u16(buf, m.protocol_number_major)
      b2 == put_u16(b1, m.protocol_number_minor)
      b3 == PutParameters(b2, m.parameters, DOMAIN m.parameters)
  IN  put_cstring(b3, <<>>)

\* mutant: a missing value ends the list instead of standing for ""
RECURSIVE GetParameters_no_default(_, _)
GetParameters_no_default(buf, params) ==
  LET key == get_cstring(buf)
  IN  IF key.st # "ok" THEN [st |-> key.st, val |-> params, rest |-> key.rest]
      ELSE IF key.val = None THEN [st |-> "ok", val |-> params, rest |-> key.rest]
      ELSE LET value == get_cstring(key.rest)
           IN  IF value.st # "ok"
               THEN [st |-> value.st, val |-> params, rest |-> value.rest]
               ELSE IF value.val = None
               THEN [st |-> "ok", val |-> params, rest |-> value.rest]
               ELSE GetParameters_no_default(value.rest,
                                             insert(params, key.val[1], value.val[1]))

RECURSIVE GetParameters(_, _)
GetParameters(buf, params) ==
  LET key == get_cstring(buf)
  IN  IF key.st # "ok" THEN [st |-> key.st, val |-> params, rest |-> key.rest]
      ELSE IF key.val = None THEN [st |-> "ok", val |-> params, rest |-> key.rest]
      ELSE LET value == get_cstring(key.rest)
           IN  IF value.st # "ok"
               THEN [st |-> value.st, val |-> params, rest |-> value.rest]
               ELSE GetParameters(value.rest,
                                  insert(params, key.val[1], unwrap_or_empty(value.val)))

Startup_decode_body(buf) ==
  LET major == get_u16(buf)
      minor == get_u16(major.rest)
      params == GetParameters(minor.rest, NewStartup.parameters)
  IN  IF major.st # "ok" THEN [st |-> major.st, val |-> NewStartup, rest |-> major.rest]
      ELSE IF minor.st # "ok" THEN [st |-> minor.st, val |-> NewStartup, rest |-> minor.rest]
      ELSE [st |-> params.st,
            val |-> [protocol_number_major |-> major.val,
                     protocol_number_minor |-> minor.val,
                     parameters |-> params.val],
            rest |-> params.rest]

\* -------------------------------------------------------- Authentication
AuthOk == [variant |-> "Ok", salt |-> <<>>]
AuthCleartextPassword == [variant |-> "CleartextPassword", salt |-> <<>>]
AuthKerberosV5 == [variant |-> "KerberosV5", salt |-> <<>>]
AuthMD5Password(salt) == [variant |-> "MD5Password", salt |-> salt]

Authentication_message_length(m) ==
  IF m.variant \in {"Ok", "CleartextPassword", "KerberosV5"} THEN 8 ELSE 12

Authentication_encode_body(m, buf) ==
  CASE m.variant = "Ok" -> put_i32(buf, 0)
    [] m.variant = "CleartextPassword" -> put_i32(buf, 3)
    [] m.variant = "KerberosV5" -> put_i32(buf, 2)
    [] m.variant = "MD5Password" -> put_slice(put_i32(buf, 5), m.salt)

Authentication_decode_body(buf) ==
  LET code == get_i32(buf)
      salt == split_to(code.rest, 4)
  IN  IF code.st # "ok" THEN [st |-> code.st, val |-> AuthOk, rest |-> code.rest]
      ELSE CASE code.val = 0 -> [st |-> "ok", val |-> AuthOk, rest |-> code.rest]
             [] code.val = 2 -> [st |-> "ok", val |-> AuthKerberosV5, rest |-> code.rest]
             [] code.val = 3 -> [st |-> "ok", val |-> AuthCleartextPassword, rest |-> code.rest]
             [] code.val = 5 ->
                  IF salt.st # "ok"
                  THEN [st |-> salt.st, val |-> AuthOk, rest |-> salt.rest]
                  ELSE [st |-> "ok", val |-> AuthMD5Password(salt.val), rest |-> salt.rest]
             \* unreachable!()
             [] OTHER -> [st |-> "panic", val |-> AuthOk, rest |-> code.rest]

\* -------------------------------------------------------------- Password
NewPassword(password) == [password |-> password]

Password_message_length(m) == 5 + Len(as_bytes(m.password))

Password_encode_body(m, buf) == put_cstring(buf, m.password)

Password_decode_body(buf) ==
  LET pass == get_cstring(buf)
  IN  [st |-> pass.st, val |-> NewPassword(unwrap_or_empty(pass.val)), rest |-> pass.rest]

\* ------------------------------------------------------- ParameterStatus
NewParameterStatus(name, value) == [name |-> name, value |-> value]

ParameterStatus_message_length(m) ==
  4 + 2 + Len(as_bytes(m.name)) + Len(as_bytes(m.value))

ParameterStatus_encode_body(m, buf) ==
  put_cstring(put_cstring(buf, m.name), m.value)

\* mutant: an empty name ends the message, its value is not read
ParameterStatus_decode_body_name_only(buf) ==
  LET name == get_cstring(buf)
      value == get_cstring(name.rest)
  IN  IF name.st # "ok" \/ name.val = None
      THEN [st |-> name.st, val |-> NewParameterStatus(<<>>, <<>>), rest |-> name.rest]
      ELSE [st |-> value.st,
            val |-> NewParameterStatus(unwrap_or_empty(name.val), unwrap_or_empty(value.val)),
            rest |-> value.rest]

ParameterStatus_decode_body(buf) ==
  LET name == get_cstring(buf)
      value == get_cstring(name.rest)
  IN  IF name.st # "ok"
      THEN [st |-> name.st, val |-> NewParameterStatus(<<>>, <<>>), rest |-> name.rest]
      ELSE [st |-> value.st,
            val |-> NewParameterStatus(unwrap_or_empty(name.val), unwrap_or_empty(value.val)),
            rest |-> value.rest]

\* -------------------------------------------------------- BackendKeyData
NewBackendKeyData(pid, secret_key) == [pid |-> pid, secret_key |-> secret_key]

BackendKeyData_message_length(m) == 12

BackendKeyData_encode_body(m, buf) == put_i32(put_i32(buf, m.pid), m.secret_key)

BackendKeyData_decode_body(buf) ==
  LET pid == get_i32(buf)
      secret_key == get_i32(pid.rest)
  IN  IF pid.st # "ok"
      THEN [st |-> pid.st, val |-> NewBackendKeyData(0, 0), rest |-> pid.rest]
      ELSE [st |-> secret_key.st,
            val |-> NewBackendKeyData(pid.val, IF secret_key.st = "ok" THEN secret_key.val ELSE 0),
            rest |-> secret_key.rest]

\* ------------------------------------------------- the Message trait
message_length(k, m) ==
  CASE k = "Startup" -> Startup_message_length(m)
    [] k = "Authentication" -> Authentication_message_length(m)
    [] k = "Password" -> Password_message_length(m)
    [] k = "ParameterStatus" -> ParameterStatus_message_length(m)
    [] k = "BackendKeyData" -> BackendKeyData_message_length(m)

encode_body(k, m, buf) ==
  CASE k = "Startup" -> Startup_encode_body(m, buf)
    [] k = "Authentication" -> Authentication_encode_body(m, buf)
    [] k = "Password" -> Password_encode_body(m, buf)
    [] k = "ParameterStatus" -> ParameterStatus_encode_body(m, buf)
    [] k = "BackendKeyData" -> BackendKeyData_encode_body(m, buf)

decode_body(k, buf) ==
  CASE k = "Startup" -> Startup_decode_body(buf)
    [] k = "Authentication" -> Authentication_decode_body(buf)
    [] k = "Password" -> Password_decode_body(buf)
    [] k = "ParameterStatus" -> ParameterStatus_decode_body(buf)
    [] k = "BackendKeyData" -> BackendKeyData_decode_body(buf)

\* ------------------------------------------------------ the input values
Strings == SeqsUpTo(Chars, MaxStrLen)
\* parameter names: 'a' < 'aa' < U+00E9 in the map's order
Names == {<<97>>, <<97, 97>>, <<233>>}

ParameterMaps ==
  UNION {[ks -> Strings] : ks \in {s \in SUBSET Names : Cardinality(s) <= MaxParams}}

\* big-endian matters for 258 = 0x0102
ProtocolNumbers == {<<3, 0>>, <<258, 65535>>}

StartupMessages ==
  {[protocol_number_major |-> v[1], protocol_number_minor |-> v[2], parameters |-> p] :
     v \in ProtocolNumbers, p \in ParameterMaps}

Salts == {<<0, 0, 0, 0>>, <<1, 2, 3, 4>>, <<255, 0, 97, 128>>}

AuthenticationMessages ==
  {AuthOk, AuthCleartextPassword, AuthKerberosV5} \cup {AuthMD5Password(s) : s \in Salts}

PasswordMessages == {NewPassword(p) : p \in Strings}

ParameterStatusMessages == {NewParameterStatus(n, v) : n \in Strings, v \in Strings}

Int32s == {-2147483647, -2, -1, 0, 1, 16909060, 2147483647}

BackendKeyDataMessages == {NewBackendKeyData(p, s) : p \in Int32s, s \in {-1, 0, 16909060}}

Rests == SeqsUpTo(RestBytes, MaxRest)

\* the first four bytes of a body that arrives from the wire
WireHeads(k) ==
  CASE k = "Startup" -> {put_u16(put_u16(<<>>, 3), 0)}
    [] k = "Authentication" -> {put_i32(<<>>, c) : c \in {0, 1, 2, 3, 5, 10, 11, 12, -1}}
    [] k = "BackendKeyData" -> {put_i32(<<>>, 7)}
    [] OTHER -> {<<>>}

\* the bytes that follow the head: a parameter list is longer than the rest
WireTails(k) ==
  IF k = "Startup" THEN SeqsUpTo(WireBytes, MaxWire) ELSE SeqsUpTo(WireBytes, MaxShortWire)

\* the bodies that arrive from the wire: a head cut short, or a whole head
\* followed by any bytes
WireBodies(k) ==
  {SubSeq(h, 1, n) : h \in {g \in WireHeads(k) : g # <<>>}, n \in 0..3}
    \cup {h \o t : h \in WireHeads(k), t \in WireTails(k)}

Kinds == {"Startup", "Authentication", "Password", "ParameterStatus", "BackendKeyData"}

NoMessage == [none |-> TRUE]
NoResult == [st |-> "none", val |-> NoMessage, rest |-> <<>>]

\* ------------------------------------------------ api::portal::Format
\* messages::data::FORMAT_CODE_BINARY
FORMAT_CODE_BINARY == 1

UnifiedText == [tag |-> "UnifiedText", codes |-> <<>>]
UnifiedBinary == [tag |-> "UnifiedBinary", codes |-> <<>>]
Individual(codes) == [tag |-> "Individual", codes |-> codes]

\* mutant: every code but 0 is binary
Format_from_nonzero(v) == IF v # 0 THEN UnifiedBinary ELSE UnifiedText

\* impl From<i16> for Format
Format_from(v) == IF v = FORMAT_CODE_BINARY THEN UnifiedBinary ELSE UnifiedText

\* impl From<i16> for FieldFormat (api::results)
FieldFormat_from(v) == IF v = FORMAT_CODE_BINARY THEN "Binary" ELSE "Text"

\* idx counts from 0; indexing a Vec past its end panics
format_for(format, idx) ==
  CASE format.tag = "UnifiedText" -> "Text"
    [] format.tag = "UnifiedBinary" -> "Binary"
    [] format.tag = "Individual" ->
         IF idx < Len(format.codes) THEN FieldFormat_from(format.codes[idx + 1]) ELSE "panic"

from_codes(codes) ==
  IF Len(codes) = 0 THEN UnifiedText
  ELSE IF Len(codes) = 1 THEN Format_from(codes[1])
  ELSE Individual(codes)

\* ------------------------------------------------ api::portal::Portal
\* api::DEFAULT_NAME, the name of the unnamed portal
DEFAULT_NAME == "DEFAULT_NAME"

try_new(bind, statement) ==
  [name |-> IF bind.portal_name = None THEN DEFAULT_NAME ELSE bind.portal_name[1],
   statement |-> statement,
   parameter_format |-> from_codes(bind.parameter_format_codes),
   parameters |-> bind.parameters,
   result_column_format |-> from_codes(bind.result_column_format_codes)]

parameter_len(portal) == Len(portal.parameters)

\* T = bool: <bool as FromSql>::accepts
accepts(pg_type) == pg_type = "bool"

\* T = bool: <bool as FromSql>::from_sql, the binary representation
from_sql(pg_type, raw) ==
  IF Len(raw) # 1
  THEN [st |-> "Err", val |-> FALSE]
  ELSE [st |-> "Ok", val |-> raw[1] # 0]

\* T = bool: the text representation, 't' or 'f'
from_text(pg_type, raw) ==
  IF raw = <<116>> THEN [st |-> "Ok", val |-> TRUE]
  ELSE IF raw = <<102>> THEN [st |-> "Ok", val |-> FALSE]
  ELSE [st |-> "Err", val |-> FALSE]

ResultOk(v) == [st |-> "Ok", err |-> "", idx |-> 0, type |-> "", val |-> v]
ResultErr(e, i, t) == [st |-> "Err", err |-> e, idx |-> i, type |-> t, val |-> None]
ResultPanic == [st |-> "panic", err |-> "", idx |-> 0, type |-> "", val |-> None]

\* the value a decoder's result becomes in Portal::parameter
Parsed(r) ==
  IF r.st = "Ok" THEN ResultOk(Some(r.val)) ELSE ResultErr("FailedToParseParameter", 0, "")

parameter(portal, idx, pg_type) ==
  IF ~accepts(pg_type)
  THEN ResultErr("InvalidRustTypeForParameter", 0, pg_type)
  ELSE IF ~(idx < Len(portal.parameters))
  THEN ResultErr("ParameterIndexOutOfBound", idx, "")
  ELSE LET param == portal.parameters[idx + 1]
           format == format_for(portal.parameter_format, idx)
       IN  IF format = "panic" THEN ResultPanic
           ELSE IF param # None THEN Parsed(from_sql(pg_type, param[1]))
           ELSE ResultOk(None)

\* ----------------------------------------------------- the Bind requests
MaxCodes == 2
MaxBindParams == 3

\* 0 is text, 1 is binary, 2 is no format of the protocol
FormatCodes == {0, 1, 2}
\* SQL NULL, or the byte 'f'
BoundValues == {None, Some(<<102>>)}
\* the result-column format codes: none, one, two and three of them
ResultCodeLists == {<<>>, <<0>>, <<1>>, <<2>>, <<1, 0>>, <<0, 2, 1>>}
Types == {"bool", "int4"}

Binds ==
  [portal_name : {None, Some("p1")},
   parameter_format_codes : SeqsUpTo(FormatCodes, MaxCodes),
   parameters : SeqsUpTo(BoundValues, MaxBindParams),
   result_column_format_codes : ResultCodeLists]

NoBind == [portal_name |-> None, parameter_format_codes |-> <<>>,
           parameters |-> <<>>, result_column_format_codes |-> <<>>]
NoCall == [idx |-> 0, pg_type |-> "bool"]

\* ------------------------------------------------------------- the state
VARIABLES
  phase,     \* "idle", "written", "received", "decoded", "reencoded"
  kind,      \* the message type in hand
  origin,    \* "encoder": the buffer was written by encode_body; "wire"
  msg,       \* the message given to encode_body
  declared,  \* message_length(msg)
  rest,      \* the bytes that follow the body in the buffer
  wire,      \* the buffer as decode_body found it
  res,       \* what decode_body returned and the buffer it left
  reenc,     \* the bytes encode_body wrote for the decoded message
  pphase,    \* "none", "bound", "queried"
  bind,      \* the Bind request the portal was built from
  portal,    \* the portal
  call,      \* the arguments of the last Portal::parameter call
  pres       \* what the last Portal::parameter call returned

codec_vars == <<phase, kind, origin, msg, declared, rest, wire, res, reenc>>
portal_vars == <<pphase, bind, portal, call, pres>>
vars == <<codec_vars, portal_vars>>

Init ==
  /\ phase = "idle"
  /\ kind = "Startup"
  /\ origin = "encoder"
  /\ msg = NoMessage
  /\ declared = 0
  /\ rest = <<>>
  /\ wire = <<>>
  /\ res = NoResult
  /\ reenc = <<>>
  /\ pphase = "none"
  /\ bind = NoBind
  /\ portal = try_new(NoBind, "stmt")
  /\ call = NoCall
  /\ pres = ResultOk(None)

\* m.encode_body(&mut buf) on an empty buffer, and m.message_length(); the
\* bytes of the next frame follow in the buffer decode_body is given
Encode(k, m, r) ==
  /\ phase = "idle"
  /\ phase' = "written"
  /\ kind' = k
  /\ origin' = "encoder"
  /\ msg' = m
  /\ declared' = message_length(k, m)
  /\ rest' = r
  /\ wire' = encode_body(k, m, <<>>) \o r
  /\ UNCHANGED <<res, reenc, portal_vars>>

EncodeStartup == \E m \in StartupMessages, r \in Rests : Encode("Startup", m, r)
EncodeAuthentication ==
  \E m \in AuthenticationMessages, r \in Rests : Encode("Authentication", m, r)
EncodePassword == \E m \in PasswordMessages, r \in Rests : Encode("Password", m, r)
EncodeParameterStatus ==
  \E m \in ParameterStatusMessages, r \in Rests : Encode("ParameterStatus", m, r)
EncodeBackendKeyData ==
  \E m \in BackendKeyDataMessages, r \in Rests : Encode("BackendKeyData", m, r)

\* a body arrives from the peer
Receive ==
  /\ phase = "idle"
  /\ \E k \in Kinds : \E b \in WireBodies(k) :
       /\ kind' = k
       /\ wire' = b
  /\ phase' = "received"
  /\ origin' = "wire"
  /\ UNCHANGED <<msg, declared, rest, res, reenc, portal_vars>>

\* T::decode_body(&mut buf)
Decode(k) ==
  /\ phase \in {"written", "received"}
  /\ kind = k
  /\ phase' = "decoded"
  /\ res' = decode_body(k, wire)
  /\ UNCHANGED <<kind, origin, msg, declared, rest, wire, reenc, portal_vars>>

DecodeStartup == Decode("Startup")
DecodeAuthentication == Decode("Authentication")
DecodePassword == Decode("Password")
DecodeParameterStatus == Decode("ParameterStatus")
DecodeBackendKeyData == Decode("BackendKeyData")

\* the decoded message is encoded again
Reencode ==
  /\ phase = "decoded"
  /\ res.st = "ok"
  /\ phase' = "reencoded"
  /\ reenc' = encode_body(kind, res.val, <<>>)
  /\ UNCHANGED <<kind, origin, msg, declared, rest, wire, res, portal_vars>>

\* the buffer and the messages are dropped
Reset ==
  /\ phase \in {"decoded", "reencoded"}
  /\ phase' = "idle"
  /\ kind' = "Startup"
  /\ origin' = "encoder"
  /\ msg' = NoMessage
  /\ declared' = 0
  /\ rest' = <<>>
  /\ wire' = <<>>
  /\ res' = NoResult
  /\ reenc' = <<>>
  /\ UNCHANGED portal_vars

\* Portal::try_new(&bind, statement)
TryNew ==
  /\ pphase = "none"
  /\ \E b \in Binds :
       /\ bind' = b
       /\ portal' = try_new(b, "stmt")
  /\ pphase' = "bound"
  /\ UNCHANGED <<call, pres, codec_vars>>

\* portal.parameter::<bool>(idx, &pg_type); &self leaves the portal as it is
Parameter ==
  /\ pphase \in {"bound", "queried"}
  /\ \E idx \in 0..MaxBindParams, pg_type \in Types :
       /\ call' = [idx |-> idx, pg_type |-> pg_type]
       /\ pres' = parameter(portal, idx, pg_type)
  /\ pphase' = "queried"
  /\ UNCHANGED <<bind, portal, codec_vars>>

\* the portal is closed
ClosePortal ==
  /\ pphase \in {"bound", "queried"}
  /\ pphase' = "none"
  /\ bind' = NoBind
  /\ portal' = try_new(NoBind, "stmt")
  /\ call' = NoCall
  /\ pres' = ResultOk(None)
  /\ UNCHANGED codec_vars

Next ==
  \/ EncodeStartup
  \/ EncodeAuthentication
  \/ EncodePassword
  \/ EncodeParameterStatus
  \/ EncodeBackendKeyData
  \/ Receive
  \/ DecodeStartup
  \/ DecodeAuthentication
  \/ DecodePassword
  \/ DecodeParameterStatus
  \/ DecodeBackendKeyData
  \/ Reencode
  \/ Reset

Spec == Init /\ [][Next]_vars

PortalNext ==
  \/ TryNew
  \/ Parameter
  \/ ClosePortal

PortalSpec == Init /\ [][PortalNext]_vars

\* =============================================================== claims
\* the bytes of the buffer decode_body removed
Consumed == SubSeq(wire, 1, Len(wire) - Len(res.rest))

\* C1: decoding the bytes encode_body wrote for a well-formed message gives
\* a message equal to the one that was encoded.
DecodeAfterEncode ==
  (phase = "decoded" /\ origin = "encoder") => (res.st = "ok" /\ res.val = msg)

\* a Startup with a parameter whose value is the empty string came back
DecodeAfterEncodeWitness ==
  /\ phase = "decoded"
  /\ origin = "encoder"
  /\ kind = "Startup"
  /\ \E k \in DOMAIN msg.parameters : msg.parameters[k] = <<>>
  /\ Cardinality(DOMAIN msg.parameters) = 2
  /\ res.val = msg

\* the names of the name/value pairs of a parameter list, as raw bytes in
\* the order of the wire
RECURSIVE RawNames(_)
RawNames(b) ==
  LET i == NulIndex(b)
      afterName == Drop(b, i)
      j == NulIndex(afterName)
  IN  IF i <= 1 \/ j = 0 THEN <<>>
      ELSE <<SubSeq(b, 1, i - 1)>> \o RawNames(Drop(afterName, j))

NamesAscending(names) ==
  \A i \in 1..(Len(names) - 1) : BytesLess(names[i], names[i + 1])

\* C2 (as stated): encoding the message decode_body returned writes exactly
\* the bytes that were decoded, whatever the order of the Startup
\* parameters in them and also when a name occurs twice.
EncodeAfterDecodeAnyOrder ==
  phase = "reencoded" => reenc = Consumed

\* C2 (amended): encoding the message decode_body returned writes exactly
\* the bytes that were decoded, provided the names of a Startup body are in
\* strictly ascending byte order.
EncodeAfterDecode ==
  (phase = "reencoded" /\ (kind = "Startup" => NamesAscending(RawNames(Drop(wire, 4)))))
    => reenc = Consumed

\* a Startup body from the wire with two parameters in ascending order was
\* decoded and encoded again
EncodeAfterDecodeWitness ==
  /\ phase = "reencoded"
  /\ origin = "wire"
  /\ kind = "Startup"
  /\ Len(RawNames(Drop(wire, 4))) = 2
  /\ NamesAscending(RawNames(Drop(wire, 4)))
  /\ Cardinality(DOMAIN res.val.parameters) = 2
  /\ reenc = wire

\* the bodies C3 names: too short for the fields decode_body must read, or
\* an Authentication code that is none of the known ones
Malformed ==
  \/ kind = "Startup" /\ Len(wire) < 4
  \/ kind = "Authentication" /\ Len(wire) < 4
  \/ kind = "Authentication" /\ Len(wire) >= 4 /\ get_i32(wire).val = 5 /\ Len(wire) < 8
  \/ kind = "Authentication" /\ Len(wire) >= 4 /\ get_i32(wire).val \notin {0, 2, 3, 5}
  \/ kind = "BackendKeyData" /\ Len(wire) < 8

\* C3: decode_body on a body too short for its fields, or on an
\* Authentication body with an unknown code, returns a protocol error and
\* does not panic.
MalformedIsError ==
  (phase = "decoded" /\ Malformed) => res.st = "error"

\* the names the protocol gives to the SASL codes
SASLVariant(code) ==
  CASE code = 10 -> "SASL"
    [] code = 11 -> "SASLContinue"
    [] code = 12 -> "SASLFinal"

\* C5: decode_body on an Authentication body whose code is 10, 11 or 12
\* returns the SASL, SASLContinue or SASLFinal message.
SASLIsDecoded ==
  (phase = "decoded" /\ kind = "Authentication" /\ Len(wire) >= 4
     /\ get_i32(wire).val \in {10, 11, 12})
    => (res.st = "ok" /\ res.val.variant = SASLVariant(get_i32(wire).val))

\* C8: message_length(m) is 4 plus the number of bytes encode_body(m)
\* writes.
DeclaredLengthIsEncodedLength ==
  (phase = "written") => declared = 4 + (Len(wire) - Len(rest))

\* a Startup with two parameters, one of them with a two-byte character,
\* was encoded
DeclaredLengthWitness ==
  /\ phase = "written"
  /\ kind = "Startup"
  /\ Cardinality(DOMAIN msg.parameters) = 2
  /\ <<233>> \in DOMAIN msg.parameters
  /\ declared = 4 + (Len(wire) - Len(rest))

\* C9: decode_body on a buffer that holds encode_body(m) followed by other
\* bytes removes exactly message_length(m) - 4 bytes and leaves the other
\* bytes in the buffer.
DecodeConsumesBody ==
  (phase = "decoded" /\ origin = "encoder")
    => (res.rest = rest /\ Len(wire) - Len(res.rest) = declared - 4)

\* a Startup whose last parameter has an empty value, followed by a NUL
\* byte of the next frame, was decoded
DecodeConsumesBodyWitness ==
  /\ phase = "decoded"
  /\ origin = "encoder"
  /\ kind = "Startup"
  /\ DOMAIN msg.parameters = {<<97>>, <<233>>}
  /\ msg.parameters[<<233>>] = <<>>
  /\ rest = <<0>>
  /\ res.rest = rest

\* the format the spec derives from a code array
ClaimedFormat(c) ==
  IF Len(c) = 0 THEN UnifiedText
  ELSE IF Len(c) = 1 THEN (IF c[1] = 0 THEN UnifiedText ELSE UnifiedBinary)
  ELSE Individual(c)

\* the same with binary for the code 1 only
BinaryOnlyForOne(c) ==
  IF Len(c) = 0 THEN UnifiedText
  ELSE IF Len(c) = 1 THEN (IF c[1] = 1 THEN UnifiedBinary ELSE UnifiedText)
  ELSE Individual(c)

\* C4 (as stated): the parameter and the result-column format of a portal
\* are derived from the code arrays of the Bind: empty is UnifiedText, one
\* code is UnifiedText when it is 0 and UnifiedBinary otherwise, two or more
\* are Individual with the codes unchanged.
FormatDerivationAsStated ==
  pphase = "bound" =>
    /\ portal.parameter_format = ClaimedFormat(bind.parameter_format_codes)
    /\ portal.result_column_format = ClaimedFormat(bind.result_column_format_codes)

\* C4 (amended): the same, but one code is UnifiedBinary when it is 1 and
\* UnifiedText for every other value.
FormatDerivation ==
  pphase = "bound" =>
    /\ portal.parameter_format = BinaryOnlyForOne(bind.parameter_format_codes)
    /\ portal.result_column_format = BinaryOnlyForOne(bind.result_column_format_codes)

\* a portal was built from a Bind with the single parameter format code 2
\* and three result-column format codes
FormatDerivationWitness ==
  /\ pphase = "bound"
  /\ bind.parameter_format_codes = <<2>>
  /\ portal.parameter_format = UnifiedText
  /\ bind.result_column_format_codes = <<0, 2, 1>>
  /\ portal.result_column_format = Individual(<<0, 2, 1>>)

\* C6: Portal::parameter reports the type the Rust type does not accept and
\* the index out of bounds as error values, returns Ok(None) for a NULL
\* parameter, and leaves the portal as try_new built it.
ParameterReportsErrors ==
  pphase = "queried" =>
    /\ portal = try_new(bind, "stmt")
    /\ ~accepts(call.pg_type)
         => pres = ResultErr("InvalidRustTypeForParameter", 0, call.pg_type)
    /\ (accepts(call.pg_type) /\ call.idx >= parameter_len(portal))
         => pres = ResultErr("ParameterIndexOutOfBound", call.idx, "")
    /\ (accepts(call.pg_type) /\ call.idx < parameter_len(portal)
          /\ portal.parameters[call.idx + 1] = None)
         => pres = ResultOk(None)

\* C7: Portal::parameter decodes a bound non-NULL parameter with the text
\* decoder when the parameter's format is Text and with the binary decoder
\* when it is Binary.
ParameterDecodedPerFormat ==
  (pphase = "queried" /\ accepts(call.pg_type) /\ call.idx < parameter_len(portal)
     /\ portal.parameters[call.idx + 1] # None
     /\ format_for(portal.parameter_format, call.idx) # "panic")
    => pres = (IF format_for(portal.parameter_format, call.idx) = "Text"
               THEN Parsed(from_text(call.pg_type, portal.parameters[call.idx + 1][1]))
               ELSE Parsed(from_sql(call.pg_type, portal.parameters[call.idx + 1][1])))

\* C10: a portal try_new built has a format for each of its parameters: an
\* Individual parameter format has at least parameter_len() codes, so
\* format_for does not index past the end for any idx < parameter_len().
EveryParameterHasFormat ==
  pphase \in {"bound", "queried"} =>
    /\ portal.parameter_format.tag = "Individual"
         => Len(portal.parameter_format.codes) >= parameter_len(portal)
    /\ \A idx \in 0..(parameter_len(portal) - 1) :
         format_for(portal.parameter_format, idx) \in {"Text", "Binary"}
====
